---- MODULE Spec2Model ----
(***************************************************************************)
(* Model of the CSV class of heatmapmaker.py: construction of the grid     *)
(* from the lines of a file, the title and data accessors, parse_data and  *)
(* to_df.  Strings are sequences of one-character strings, so that strip,  *)
(* split, replace and float are computed character by character.           *)
(***************************************************************************)
EXTENDS Integers, Sequences, FiniteSets, TLC

(***************************************************************************)
(* Bounds of the model.                                                    *)
(***************************************************************************)
MaxLines == 3
MaxLineLen == 3
MaxCellLen == 3
MaxAliasLines == 2
MaxGridSide == 2
MaxGridCellLen == 1
MaxItems == 3
MaxGuiLines == 2
MaxGuiLineLen == 2
MaxHeatmaps == 1
MaxItemLen == 3
MaxMutations == 1

\* characters a line of the modelled files is made of
Alphabet == {"1", ";"}
\* the seperator arguments the constructor is called with
Seperators == {";", ","}
\* characters of the cells handed to parse_data directly
CellAlphabet == {"1", ",", ".", "a", " "}
\* the cells the documentation names: "1,5", "1.5", "3,14" and "1,234,5"
NamedCells ==
    {<<"1", ",", "5">>, <<"1", ".", "5">>, <<"3", ",", "1", "4">>,
     <<"1", ",", "2", "3", "4", ",", "5">>}

\* characters str.strip() and float() remove at both ends
Whitespace == {" ", "\t"}
Digits == {"0", "1", "2", "3", "4", "5", "6", "7", "8", "9"}

\* the sequences over S of length at most n
SeqsUpTo(S, n) == UNION {[1..k -> S] : k \in 0..n}

Lines == SeqsUpTo(Alphabet, MaxLineLen)
Files == SeqsUpTo(Lines, MaxLines)

\* the nested lists handed to parse_data directly: up to two cells
Cells == SeqsUpTo(CellAlphabet, MaxCellLen) \cup NamedCells
Shapes == {"empty", "one empty row", "1x1", "1x2", "2x1"}
Matrix(shape, c, d) ==
    CASE shape = "empty" -> <<>>
      [] shape = "one empty row" -> << <<>> >>
      [] shape = "1x1" -> << <<c>> >>
      [] shape = "1x2" -> << <<c, d>> >>
      [] shape = "2x1" -> << <<c>>, <<d>> >>

(***************************************************************************)
(* Python string primitives.                                               *)
(***************************************************************************)
RECURSIVE lstrip(_)
lstrip(s) ==
    IF s # <<>> /\ Head(s) \in Whitespace THEN lstrip(Tail(s)) ELSE s

RECURSIVE rstrip(_)
rstrip(s) ==
    IF s # <<>> /\ s[Len(s)] \in Whitespace
    THEN rstrip(SubSeq(s, 1, Len(s) - 1))
    ELSE s

\* str.strip() without argument
strip(s) == rstrip(lstrip(s))

\* str.split(sep=c) for a one-character c: one cell more than occurrences of c
RECURSIVE split(_, _)
split(s, c) ==
    IF s = <<>> THEN << <<>> >>
    ELSE LET rest == split(Tail(s), c)
         IN  IF Head(s) = c
             THEN << <<>> >> \o rest
             ELSE << <<Head(s)>> \o Head(rest) >> \o Tail(rest)

\* str.replace(old, new) for one-character old and new
replace(s, old, new) == [i \in 1..Len(s) |-> IF s[i] = old THEN new ELSE s[i]]

(***************************************************************************)
(* CSV.all_are_the_same_length: the loop over the items, length starting   *)
(* as None (NoLength).                                                     *)
(***************************************************************************)
NoLength == -1

\* the loop rejecting only the items shorter than the first
RECURSIVE SameLengthLoopShorterOnly(_, _)
SameLengthLoopShorterOnly(items, length) ==
    IF items = <<>> THEN TRUE
    ELSE LET l == IF length = NoLength THEN Len(Head(items)) ELSE length
         IN  IF Len(Head(items)) < l THEN FALSE
             ELSE SameLengthLoopShorterOnly(Tail(items), l)

RECURSIVE SameLengthLoop(_, _)
SameLengthLoop(items, length) ==
    IF items = <<>> THEN TRUE
    ELSE LET l == IF length = NoLength THEN Len(Head(items)) ELSE length
         IN  IF Len(Head(items)) # l THEN FALSE
             ELSE SameLengthLoop(Tail(items), l)

\* all_are_the_same_length with length starting at 0 instead of None
all_are_the_same_length_from_zero(iterable) == SameLengthLoop(iterable, 0)

\* all_are_the_same_length returning False for an iterable without items
all_are_the_same_length_and_some(iterable) ==
    iterable # <<>> /\ SameLengthLoop(iterable, NoLength)

all_are_the_same_length(iterable) == SameLengthLoop(iterable, NoLength)

(***************************************************************************)
(* State: the CSV object (rows, cols, ...), the arguments it was built     *)
(* from, and the outcome of the last call.                                 *)
(***************************************************************************)
VARIABLES
    pc,               \* "new": nothing constructed, "ready": object exists, "failed": __init__ raised
    lines,            \* the lines of the file handed to __init__
    sep,              \* self._sep
    rows,             \* self.rows
    cols,             \* self.cols
    length_of_rows,   \* self.length_of_rows
    length_of_cols,   \* self.length_of_cols
    row_titles,       \* self._row_titles
    col_titles,       \* self._col_titles
    op,               \* the last method called
    arg,              \* the argument of the last parse_data call
    ret,              \* what the last call returned
    err,              \* the exception the last call raised, "none" if it returned
    errLine,          \* the source line that raised it, 0 if none
    shared,           \* which lists of the object the value in ret is made of
    mutations,        \* how often the caller has modified a returned value
    dataframe,        \* DrawGui.dataframe
    notification_csv,        \* DrawGui.notification_csv
    notification_heatmap,    \* DrawGui.notification_heatmap
    seperator_in_input_csv,  \* DrawGui.seperator_in_input_csv
    heatmaps          \* how often make_heatmap has been invoked

\* the caller's side of a returned value
caller == <<shared, mutations>>

\* the state of the window
gui == <<dataframe, notification_csv, notification_heatmap, seperator_in_input_csv, heatmaps>>

vars == <<pc, lines, sep, rows, cols, length_of_rows, length_of_cols,
          row_titles, col_titles, op, arg, ret, err, errLine, caller, gui>>

object == <<sep, rows, cols, length_of_rows, length_of_cols, row_titles, col_titles>>

\* the object as a record, as the methods see it
Self == [sep |-> sep, rows |-> rows, cols |-> cols,
         row_titles |-> row_titles, col_titles |-> col_titles]

\* return values: None, or a value tagged with its kind
None == [kind |-> "None", val |-> <<>>]
List(v) == [kind |-> "list", val |-> v]

\* a returned value made of fresh lists only
NoSharing == [attr |-> "none", whole |-> FALSE, items |-> <<>>]

\* DrawGui.__init__ and set_variables_to_default: no dataframe, the two
\* notifications, the seperator ";"
GuiDefault ==
    /\ dataframe = None
    /\ notification_csv = <<"No data CSV defined yet. Click 'Read CSV' to proceed.">>
    /\ notification_heatmap = <<"">>
    /\ seperator_in_input_csv = <<";">>
    /\ heatmaps = 0

Init ==
    /\ pc = "new"
    /\ lines = <<>>
    /\ sep = ","
    /\ rows = <<>>
    /\ cols = <<>>
    /\ length_of_rows = 0
    /\ length_of_cols = 0
    /\ row_titles = TRUE
    /\ col_titles = TRUE
    /\ op = "none"
    /\ arg = <<>>
    /\ ret = None
    /\ err = "none"
    /\ errLine = 0
    /\ shared = NoSharing
    /\ mutations = 0
    /\ GuiDefault

(***************************************************************************)
(* CSV.__init__                                                            *)
(***************************************************************************)
\* lines 62-65: every line stripped and split on the seperator
ReadRows(file, seperator) ==
    [i \in 1..Len(file) |-> split(strip(file[i]), seperator)]

\* the columns built over range(n - 1): the last column is lost
BuildColsDroppingLast(rws, n) ==
    [idx \in 1..(n - 1) |-> [r \in 1..Len(rws) |-> rws[r][idx]]]

\* lines 69-72: one column per index of row 0
BuildCols(rws, n) ==
    [idx \in 1..n |-> [r \in 1..Len(rws) |-> rws[r][idx]]]

\* the exception __init__ raises on these rows as <<name, line>>, <<"none", 0>> if it returns
InitOutcome(rws) ==
    IF ~all_are_the_same_length(rws) THEN <<"AssertionError", 66>>
    ELSE IF rws = <<>> THEN <<"IndexError", 67>>
    ELSE LET cs == BuildCols(rws, Len(rws[1]))
         IN  IF ~all_are_the_same_length(cs) THEN <<"AssertionError", 73>>
             ELSE IF cs = <<>> THEN <<"IndexError", 74>>
             ELSE <<"none", 0>>

\* the fields are assigned in source order, so a failing __init__ leaves the
\* later ones as they were; the half-built object is never handed to the caller
Construct(file, seperator, has_row_titles, has_col_titles) ==
    /\ pc = "new"
    /\ \E rws \in {ReadRows(file, seperator)} : \E out \in {InitOutcome(rws)} :
       \E cs \in {IF out[2] \in {66, 67} THEN <<>> ELSE BuildCols(rws, Len(rws[1]))} :
           /\ lines' = file
           /\ op' = "__init__"
           /\ err' = out[1]
           /\ errLine' = out[2]
           /\ pc' = IF out[1] = "none" THEN "ready" ELSE "failed"
           /\ sep' = seperator
           /\ rows' = rws
           /\ IF out[2] \in {66, 67}
              THEN UNCHANGED <<length_of_rows, cols>>
              ELSE /\ length_of_rows' = Len(rws[1])
                   /\ cols' = cs
           /\ IF out[1] = "none"
              THEN /\ length_of_cols' = Len(cs[1])
                   /\ row_titles' = has_row_titles
                   /\ col_titles' = has_col_titles
              ELSE UNCHANGED <<length_of_cols, row_titles, col_titles>>
    /\ UNCHANGED <<arg, ret, caller, gui>>

Open ==
    /\ pc = "new"
    /\ \E file \in Files, seperator \in Seperators, hrt \in BOOLEAN, hct \in BOOLEAN :
           Construct(file, seperator, hrt, hct)

(***************************************************************************)
(* The title and data accessors.  self is the object as a record.          *)
(***************************************************************************)
\* the items of a list whose enumerate() index is not 0
ExceptIndex0(s) == [i \in 1..(Len(s) - 1) |-> s[i + 1]]

\* the slice item[1:]
From1(item) == SubSeq(item, 2, Len(item))

\* [item[0] for item in s]
Firsts(s) == [i \in 1..Len(s) |-> s[i][1]]

\* get_row_titles keeping row 0 whatever the flags
get_row_titles_keeping_row0(self) ==
    IF self.row_titles THEN List(Firsts(self.rows)) ELSE None

get_row_titles(self) ==
    IF self.row_titles
    THEN IF self.col_titles
         THEN List(Firsts(ExceptIndex0(self.rows)))
         ELSE List(Firsts(self.rows))
    ELSE None

\* get_col_titles reading the rows where it should read the columns
get_col_titles_from_rows(self) ==
    IF self.col_titles
    THEN IF self.row_titles
         THEN List(Firsts(ExceptIndex0(self.rows)))
         ELSE List(Firsts(SelectSeq(self.rows, LAMBDA col : col # <<>>)))
    ELSE None

\* get_col_titles keeping column 0 whatever the flags
get_col_titles_keeping_col0(self) ==
    IF self.col_titles
    THEN List(Firsts(SelectSeq(self.cols, LAMBDA col : col # <<>>)))
    ELSE None

\* get_col_titles skipping the columns whose first cell is empty
get_col_titles_skipping_blank_titles(self) ==
    IF self.col_titles
    THEN IF self.row_titles
         THEN List(Firsts(ExceptIndex0(self.cols)))
         ELSE List(Firsts(SelectSeq(self.cols, LAMBDA col : col # <<>> /\ col[1] # <<>>)))
    ELSE None

get_col_titles(self) ==
    IF self.col_titles
    THEN IF self.row_titles
         THEN List(Firsts(ExceptIndex0(self.cols)))
         ELSE List(Firsts(SelectSeq(self.cols, LAMBDA col : col # <<>>)))
    ELSE None

\* get_data_per_row_without_titles with the two single-flag branches swapped
get_data_per_row_swapped_branches(self) ==
    IF self.row_titles /\ self.col_titles
    THEN LET rs == ExceptIndex0(self.rows)
         IN  List([i \in 1..Len(rs) |-> From1(rs[i])])
    ELSE IF self.row_titles
    THEN List(ExceptIndex0(self.rows))
    ELSE IF self.col_titles
    THEN List([i \in 1..Len(self.rows) |-> From1(self.rows[i])])
    ELSE List(self.rows)

\* get_data_per_row_without_titles returning the whole grid under both flags
get_data_per_row_with_titles(self) ==
    IF self.row_titles /\ self.col_titles
    THEN List(self.rows)
    ELSE IF self.col_titles
    THEN List(ExceptIndex0(self.rows))
    ELSE IF self.row_titles
    THEN List([i \in 1..Len(self.rows) |-> From1(self.rows[i])])
    ELSE List(self.rows)

get_data_per_row_without_titles(self) ==
    IF self.row_titles /\ self.col_titles
    THEN LET rs == ExceptIndex0(self.rows)
         IN  List([i \in 1..Len(rs) |-> From1(rs[i])])
    ELSE IF self.col_titles
    THEN List(ExceptIndex0(self.rows))
    ELSE IF self.row_titles
    THEN List([i \in 1..Len(self.rows) |-> From1(self.rows[i])])
    ELSE List(self.rows)

\* get_data_per_col_without_titles keeping the title cell of the columns under both flags
get_data_per_col_keeping_cell0(self) ==
    IF self.row_titles /\ self.col_titles
    THEN List(ExceptIndex0(self.cols))
    ELSE IF self.row_titles
    THEN List(ExceptIndex0(self.cols))
    ELSE IF self.col_titles
    THEN List([i \in 1..Len(self.cols) |-> From1(self.cols[i])])
    ELSE List(self.cols)

get_data_per_col_without_titles(self) ==
    IF self.row_titles /\ self.col_titles
    THEN LET cs == ExceptIndex0(self.cols)
         IN  List([i \in 1..Len(cs) |-> From1(cs[i])])
    ELSE IF self.row_titles
    THEN List(ExceptIndex0(self.cols))
    ELSE IF self.col_titles
    THEN List([i \in 1..Len(self.cols) |-> From1(self.cols[i])])
    ELSE List(self.cols)

\* what the list get_data_per_row_without_titles returns is made of: the
\* slices row[1:] are fresh lists, the rows appended as they are (line 165)
\* are the lists of self.rows, and without titles it is self.rows (line 170)
sharing_of_data_per_row(self) ==
    IF self.row_titles /\ self.col_titles THEN NoSharing
    ELSE IF self.col_titles
    THEN [attr |-> "rows", whole |-> FALSE,
          items |-> [i \in 1..(Len(self.rows) - 1) |-> i + 1]]
    ELSE IF self.row_titles THEN NoSharing
    ELSE [attr |-> "rows", whole |-> TRUE, items |-> <<>>]

\* the same for get_data_per_col_without_titles (lines 189 and 194)
sharing_of_data_per_col(self) ==
    IF self.row_titles /\ self.col_titles THEN NoSharing
    ELSE IF self.row_titles
    THEN [attr |-> "cols", whole |-> FALSE,
          items |-> [i \in 1..(Len(self.cols) - 1) |-> i + 1]]
    ELSE IF self.col_titles THEN NoSharing
    ELSE [attr |-> "cols", whole |-> TRUE, items |-> <<>>]

\* an accessor that takes row 0 off self.rows while it returns
ReturnsConsumingRow0(name, v, sh) ==
    /\ pc = "ready"
    /\ op' = name
    /\ ret' = v
    /\ err' = "none"
    /\ errLine' = 0
    /\ arg' = <<>>
    /\ shared' = sh
    /\ rows' = ExceptIndex0(rows)
    /\ UNCHANGED <<pc, lines, sep, cols, length_of_rows, length_of_cols,
                   row_titles, col_titles, mutations, gui>>

\* a call that returns v, made of the lists sh, and raises nothing
Returns(name, v, sh) ==
    /\ pc = "ready"
    /\ op' = name
    /\ ret' = v
    /\ err' = "none"
    /\ errLine' = 0
    /\ arg' = <<>>
    /\ shared' = sh
    /\ UNCHANGED <<pc, lines, object, mutations, gui>>

GetRowTitles == Returns("get_row_titles", get_row_titles(Self), NoSharing)
GetColTitles == Returns("get_col_titles", get_col_titles(Self), NoSharing)
GetDataPerRow ==
    Returns("get_data_per_row_without_titles", get_data_per_row_without_titles(Self),
            sharing_of_data_per_row(Self))
GetDataPerCol ==
    Returns("get_data_per_col_without_titles", get_data_per_col_without_titles(Self),
            sharing_of_data_per_col(Self))

(***************************************************************************)
(* float() on the strings of the modelled alphabets: surrounding           *)
(* whitespace is dropped, then digits with at most one period and at least *)
(* one digit.  The value num / 10^scale is kept in lowest terms of ten, so *)
(* that equal numbers are equal values.                                    *)
(***************************************************************************)
Count(s, c) == Cardinality({i \in 1..Len(s) : s[i] = c})

DigitValue(c) ==
    CASE c = "0" -> 0 [] c = "1" -> 1 [] c = "2" -> 2 [] c = "3" -> 3 [] c = "4" -> 4
      [] c = "5" -> 5 [] c = "6" -> 6 [] c = "7" -> 7 [] c = "8" -> 8 [] c = "9" -> 9

RECURSIVE DigitsToInt(_)
DigitsToInt(s) ==
    IF s = <<>> THEN 0
    ELSE 10 * DigitsToInt(SubSeq(s, 1, Len(s) - 1)) + DigitValue(s[Len(s)])

RECURSIVE Normalize(_)
Normalize(x) ==
    IF x.num = 0 THEN [num |-> 0, scale |-> 0]
    ELSE IF x.scale > 0 /\ x.num % 10 = 0
    THEN Normalize([num |-> x.num \div 10, scale |-> x.scale - 1])
    ELSE x

is_float_literal(s) ==
    LET t == strip(s)
    IN  /\ \A i \in 1..Len(t) : t[i] \in Digits \cup {"."}
        /\ Count(t, ".") <= 1
        /\ \E i \in 1..Len(t) : t[i] \in Digits

float(s) ==
    LET t == strip(s)
        digits == SelectSeq(t, LAMBDA c : c \in Digits)
        scale == IF Count(t, ".") = 0 THEN 0
                 ELSE Len(t) - (CHOOSE i \in 1..Len(t) : t[i] = ".")
    IN  Normalize([num |-> DigitsToInt(digits), scale |-> scale])

(***************************************************************************)
(* CSV.parse_data: the outcome as [err, line, val]; val is the matrix of   *)
(* floats when every cell parses, and nothing is returned otherwise.       *)
(***************************************************************************)
\* parse_data handing the cells to float() as they are
parse_data_without_replace(m) ==
    IF \A i \in 1..Len(m) : \A j \in 1..Len(m[i]) : is_float_literal(m[i][j])
    THEN [err |-> "none", line |-> 0,
          val |-> [i \in 1..Len(m) |-> [j \in 1..Len(m[i]) |-> float(m[i][j])]]]
    ELSE [err |-> "ValueError", line |-> 118, val |-> <<>>]

\* parse_data leaving out the rows that hold a cell float() rejects
parse_data_skipping_bad_rows(m) ==
    LET good == SelectSeq(m, LAMBDA row :
                    \A j \in 1..Len(row) : is_float_literal(replace(row[j], ",", ".")))
    IN  [err |-> "none", line |-> 0,
         val |-> [i \in 1..Len(good) |->
                    [j \in 1..Len(good[i]) |-> float(replace(good[i][j], ",", "."))]]]

parse_data(m) ==
    IF \A i \in 1..Len(m) : \A j \in 1..Len(m[i]) : is_float_literal(replace(m[i][j], ",", "."))
    THEN [err |-> "none", line |-> 0,
          val |-> [i \in 1..Len(m) |-> [j \in 1..Len(m[i]) |-> float(replace(m[i][j], ",", "."))]]]
    ELSE [err |-> "ValueError", line |-> 118, val |-> <<>>]

(***************************************************************************)
(* pandas.DataFrame(data, index=..., columns=...) on a list of lists:      *)
(* absent labels become the positions 0..n-1, given labels must fit the    *)
(* shape of the data.                                                      *)
(***************************************************************************)
RangeIndex(n) == [i \in 1..n |-> i - 1]

DataFrame(data, index, columns) ==
    LET nrows == Len(data)
        ncols == IF data # <<>> THEN Len(data[1])
                 ELSE IF columns.kind = "None" THEN 0 ELSE Len(columns.val)
    IN  IF \/ index.kind # "None" /\ Len(index.val) # nrows
           \/ columns.kind # "None" /\ Len(columns.val) # ncols
        THEN [err |-> "ValueError", line |-> 112, val |-> <<>>]
        ELSE [err |-> "none", line |-> 0,
              val |-> [kind |-> "DataFrame",
                       index |-> IF index.kind = "None" THEN RangeIndex(nrows) ELSE index.val,
                       columns |-> IF columns.kind = "None" THEN RangeIndex(ncols) ELSE columns.val,
                       val |-> data]]

\* to_df reading the data column by column
to_df_per_col(self) ==
    LET titles_of_rows == get_row_titles(self)
        titles_of_cols == get_col_titles(self)
        data == parse_data(get_data_per_col_without_titles(self).val)
    IN  IF data.err # "none" THEN data
        ELSE DataFrame(data.val, titles_of_rows, titles_of_cols)

\* CSV.to_df
to_df(self) ==
    LET titles_of_rows == get_row_titles(self)
        titles_of_cols == get_col_titles(self)
        data == parse_data(get_data_per_row_without_titles(self).val)
    IN  IF data.err # "none" THEN data
        ELSE DataFrame(data.val, titles_of_rows, titles_of_cols)

\* a call whose outcome is [err, line, val]: it raises err or returns val
Call(name, argument, out) ==
    /\ pc = "ready"
    /\ op' = name
    /\ arg' = argument
    /\ err' = out.err
    /\ errLine' = out.line
    /\ ret' = IF out.err = "none" THEN out.val ELSE None
    /\ shared' = NoSharing
    /\ UNCHANGED <<pc, lines, object, mutations, gui>>

ParseData(m) == \E out \in {parse_data(m)} : Call("parse_data", m, IF out.err = "none" THEN [out EXCEPT !.val = List(out.val)] ELSE out)

ToDf == \E out \in {to_df(Self)} : Call("to_df", <<>>, out)

\* parse_data as the tests and to_df call it: on what a data accessor returned
ParseOwnData ==
    \E m \in {get_data_per_row_without_titles(Self).val,
              get_data_per_col_without_titles(Self).val} : ParseData(m)

Next ==
    \/ Open
    \/ GetRowTitles
    \/ GetColTitles
    \/ GetDataPerRow
    \/ GetDataPerCol
    \/ ParseOwnData
    \/ ToDf

Spec == Init /\ [][Next]_vars

(***************************************************************************)
(* parse_data on its own: an object built from the one-line file "1", and  *)
(* one call of parse_data on a nested list the caller prepared.            *)
(***************************************************************************)
InitParse ==
    /\ pc = "ready"
    /\ lines = << <<"1">> >>
    /\ sep = ","
    /\ rows = ReadRows(lines, sep)
    /\ cols = BuildCols(rows, Len(rows[1]))
    /\ length_of_rows = Len(rows[1])
    /\ length_of_cols = Len(cols[1])
    /\ row_titles = TRUE
    /\ col_titles = TRUE
    /\ op = "__init__"
    /\ \E shape \in Shapes, c \in Cells, d \in Cells : arg = Matrix(shape, c, d)
    /\ ret = None
    /\ err = "none"
    /\ errLine = 0
    /\ shared = NoSharing
    /\ mutations = 0
    /\ GuiDefault

ParseArg == op = "__init__" /\ ParseData(arg)

NextParse == ParseArg

SpecParse == InitParse /\ [][NextParse]_vars

\* both together: objects built from files, and parse_data on prepared lists
InitAll == Init \/ InitParse

NextAll == Next \/ NextParse

SpecAll == InitAll /\ [][NextAll]_vars

(***************************************************************************)
(* all_are_the_same_length called on an iterable of lists, tuples and      *)
(* strings, as the test does on the object of the fixture.  The elements   *)
(* of an item tell its kind: "l" in a list, "t" in a tuple, "s" the        *)
(* characters of a string.                                                 *)
(***************************************************************************)
Kinds == {"l", "t", "s"}

Items == UNION {[1..n -> {k}] : n \in 0..MaxItemLen, k \in Kinds}

Iterables == SeqsUpTo(Items, MaxItems)

Bool(b) == [kind |-> "bool", val |-> b]

InitLen ==
    /\ pc = "ready"
    /\ lines = << <<"1">> >>
    /\ sep = ","
    /\ rows = ReadRows(lines, sep)
    /\ cols = BuildCols(rows, Len(rows[1]))
    /\ length_of_rows = Len(rows[1])
    /\ length_of_cols = Len(cols[1])
    /\ row_titles = TRUE
    /\ col_titles = TRUE
    /\ op = "__init__"
    /\ arg \in Iterables
    /\ ret = None
    /\ err = "none"
    /\ errLine = 0
    /\ shared = NoSharing
    /\ mutations = 0
    /\ GuiDefault

AllSameLengthArg ==
    /\ op = "__init__"
    /\ Call("all_are_the_same_length", arg,
            [err |-> "none", line |-> 0, val |-> Bool(all_are_the_same_length(arg))])

NextLen == AllSameLengthArg

SpecLen == InitLen /\ [][NextLen]_vars

(***************************************************************************)
(* Construction from the lines of a written grid: every row of the grid    *)
(* is one line, its cells joined with the seperator.                       *)
(***************************************************************************)
Delimiters == {",", ";", "\t"}

GridCells == SeqsUpTo({"1", " ", "\t"}, MaxGridCellLen)

Grids == UNION {[1..r -> [1..c -> GridCells]] : r \in 1..MaxGridSide, c \in 1..MaxGridSide}

RECURSIVE JoinCells(_, _)
JoinCells(cells, c) ==
    IF Len(cells) = 1 THEN cells[1]
    ELSE cells[1] \o <<c>> \o JoinCells(Tail(cells), c)

JoinLines(grid, c) == [i \in 1..Len(grid) |-> JoinCells(grid[i], c)]

\* no cell of the grid contains the character c
Writable(grid, c) ==
    \A i \in 1..Len(grid) : \A j \in 1..Len(grid[i]) : Count(grid[i][j], c) = 0

InitJoin ==
    /\ pc = "new"
    /\ lines = <<>>
    /\ sep = ","
    /\ rows = <<>>
    /\ cols = <<>>
    /\ length_of_rows = 0
    /\ length_of_cols = 0
    /\ row_titles = TRUE
    /\ col_titles = TRUE
    /\ op = "none"
    /\ arg \in Grids
    /\ ret = None
    /\ err = "none"
    /\ errLine = 0
    /\ shared = NoSharing
    /\ mutations = 0
    /\ GuiDefault

OpenJoined ==
    /\ pc = "new"
    /\ \E seperator \in Delimiters, hrt \in BOOLEAN, hct \in BOOLEAN :
           /\ Writable(arg, seperator)
           /\ Construct(JoinLines(arg, seperator), seperator, hrt, hct)

NextJoin == OpenJoined

SpecJoin == InitJoin /\ [][NextJoin]_vars

(***************************************************************************)
(* The window: the buttons "Read CSV" and "Save Heatmap" and the entry of  *)
(* the seperator.  A notification is the sequence of the pieces of its     *)
(* text.  An exception in a handler ends the handler and the window goes   *)
(* on.                                                                     *)
(***************************************************************************)
GuiLines == SeqsUpTo(Alphabet, MaxGuiLineLen)

GuiFiles == SeqsUpTo(GuiLines, MaxGuiLines)

FileNames == {"a.csv", "b.csv"}

Titles == {"", "t"}

\* what the user may leave in the entry of the seperator
SeperatorEntries == {<<>>, <<";">>, <<",">>}

CouldNotMakeHeatmap == <<"Could not make heatmap.", " Check if a CSV file has been read!">>

\* CSV(csv_file, seperator=seperator).to_df() on a file that opens
csv_to_df(file, seperator) ==
    IF file # <<>> /\ seperator = <<>>
    THEN [err |-> "ValueError", line |-> 65, val |-> <<>>]
    ELSE LET c == IF seperator = <<>> THEN "" ELSE seperator[1]
             rws == ReadRows(file, c)
             out == InitOutcome(rws)
         IN  IF out[1] # "none"
             THEN [err |-> out[1], line |-> out[2], val |-> <<>>]
             ELSE to_df([sep |-> c, rows |-> rws, cols |-> BuildCols(rws, Len(rws[1])),
                         row_titles |-> TRUE, col_titles |-> TRUE])

InitGui ==
    /\ pc = "gui"
    /\ lines = <<>>
    /\ sep = ","
    /\ rows = <<>>
    /\ cols = <<>>
    /\ length_of_rows = 0
    /\ length_of_cols = 0
    /\ row_titles = TRUE
    /\ col_titles = TRUE
    /\ op = "none"
    /\ arg = <<>>
    /\ ret = None
    /\ err = "none"
    /\ errLine = 0
    /\ shared = NoSharing
    /\ mutations = 0
    /\ GuiDefault

\* define_dataframe: the file dialog gives a path that does not open (or
\* none), or the path of a file
define_dataframe ==
    /\ pc = "gui"
    /\ op' = "define_dataframe"
    /\ \/ /\ err' = "FileNotFoundError"
          /\ errLine' = 63
          /\ UNCHANGED <<dataframe, notification_csv, notification_heatmap>>
       \/ \E file \in GuiFiles : \E out \in {csv_to_df(file, seperator_in_input_csv)} :
              /\ err' = out.err
              /\ errLine' = out.line
              /\ IF out.err = "none"
                 THEN /\ dataframe' = out.val
                      /\ \E name \in FileNames :
                            notification_csv' = <<"Current active data CSV: ", name>>
                      /\ notification_heatmap' = <<"">>
                 ELSE UNCHANGED <<dataframe, notification_csv, notification_heatmap>>
    /\ UNCHANGED <<pc, lines, object, arg, ret, caller, seperator_in_input_csv, heatmaps>>

\* make_heatmap is invoked; it returns True or raises
Renders ==
    /\ heatmaps < MaxHeatmaps
    /\ heatmaps' = heatmaps + 1
    /\ \E title \in Titles, made \in BOOLEAN :
           IF made
           THEN /\ notification_heatmap' = <<"Created heatmap2 '", title, "'">>
                /\ err' = "none"
                /\ errLine' = 0
           ELSE /\ err' = "Exception"
                /\ errLine' = 593
                /\ UNCHANGED notification_heatmap

\* call_make_heatmap without the test of the dataframe
call_make_heatmap_unguarded ==
    /\ pc = "gui"
    /\ op' = "call_make_heatmap"
    /\ Renders
    /\ UNCHANGED <<pc, lines, object, arg, ret, caller, dataframe, notification_csv,
                   seperator_in_input_csv>>

call_make_heatmap ==
    /\ pc = "gui"
    /\ op' = "call_make_heatmap"
    /\ IF dataframe.kind = "None"
       THEN /\ notification_heatmap' = CouldNotMakeHeatmap
            /\ err' = "none"
            /\ errLine' = 0
            /\ UNCHANGED heatmaps
       ELSE Renders
    /\ UNCHANGED <<pc, lines, object, arg, ret, caller, dataframe, notification_csv,
                   seperator_in_input_csv>>

\* the user edits the entry of the seperator
seperator_entry ==
    /\ pc = "gui"
    /\ op' = "seperator_entry"
    /\ \E s \in SeperatorEntries : seperator_in_input_csv' = s
    /\ err' = "none"
    /\ errLine' = 0
    /\ UNCHANGED <<pc, lines, object, arg, ret, caller, dataframe, notification_csv,
                   notification_heatmap, heatmaps>>

NextGui ==
    \/ define_dataframe
    \/ call_make_heatmap
    \/ seperator_entry

SpecGui == InitGui /\ [][NextGui]_vars

(***************************************************************************)
(* A caller that keeps the list a data accessor returned and modifies it:  *)
(* data[0][0] = "x", data.append(["x"]) and data.pop().  A list of the     *)
(* object that is part of the returned value changes with it.              *)
(***************************************************************************)
ShortFiles == SeqsUpTo(Lines, MaxAliasLines)

OpenShort ==
    /\ pc = "new"
    /\ \E file \in ShortFiles, seperator \in Seperators, hrt \in BOOLEAN, hct \in BOOLEAN :
           Construct(file, seperator, hrt, hct)

\* the cell the caller writes
CallerCell == <<"x">>

\* the caller holds the list a data accessor returned
HoldsData ==
    /\ pc = "ready"
    /\ op \in {"get_data_per_row_without_titles", "get_data_per_col_without_titles"}
    /\ err = "none"
    /\ mutations < MaxMutations

\* the returned list becomes v and its items are the lists its; rws and cs
\* are what self.rows and self.cols have become
Modified(v, its, rws, cs) ==
    /\ ret' = [ret EXCEPT !.val = v]
    /\ shared' = [shared EXCEPT !.items = its]
    /\ rows' = rws
    /\ cols' = cs
    /\ mutations' = mutations + 1
    /\ UNCHANGED <<pc, lines, sep, length_of_rows, length_of_cols, row_titles,
                   col_titles, op, arg, err, errLine, gui>>

\* the list of the object the returned list is, or is made of, after the
\* returned list became v through a change of the outer list
OuterChange(attr, name, v) ==
    IF shared.attr = name /\ shared.whole THEN v ELSE attr

\* data[0][0] = "x": the cell changes in the returned list and, when item 0
\* is a list of the object, in the object
CallerOverwritesCell ==
    /\ HoldsData
    /\ ret.val # <<>>
    /\ ret.val[1] # <<>>
    /\ LET v == [ret.val EXCEPT ![1][1] = CallerCell]
           k == IF shared.whole THEN 1
                ELSE IF shared.attr # "none" /\ shared.items # <<>> THEN shared.items[1]
                ELSE 0
           InObject(attr, name) ==
               IF shared.attr = name /\ k > 0 THEN [attr EXCEPT ![k][1] = CallerCell]
               ELSE attr
       IN  Modified(v, shared.items, InObject(rows, "rows"), InObject(cols, "cols"))

\* data.append(["x"]): a fresh list is added to the returned list
CallerAppendsRow ==
    /\ HoldsData
    /\ LET v == Append(ret.val, <<CallerCell>>)
           its == IF shared.attr = "none" \/ shared.whole THEN shared.items
                  ELSE Append(shared.items, 0)
       IN  Modified(v, its, OuterChange(rows, "rows", v), OuterChange(cols, "cols", v))

\* data.pop(): the last item leaves the returned list
CallerRemovesRow ==
    /\ HoldsData
    /\ ret.val # <<>>
    /\ LET v == SubSeq(ret.val, 1, Len(ret.val) - 1)
           its == IF shared.attr = "none" \/ shared.whole THEN shared.items
                  ELSE SubSeq(shared.items, 1, Len(shared.items) - 1)
       IN  Modified(v, its, OuterChange(rows, "rows", v), OuterChange(cols, "cols", v))

NextAlias ==
    \/ OpenShort
    \/ GetRowTitles
    \/ GetColTitles
    \/ GetDataPerRow
    \/ GetDataPerCol
    \/ ParseOwnData
    \/ ToDf
    \/ CallerOverwritesCell
    \/ CallerAppendsRow
    \/ CallerRemovesRow

SpecAlias == Init /\ [][NextAlias]_vars

(***************************************************************************)
(* Properties.                                                             *)
(***************************************************************************)
\* the number of cells of a line: one more than the seperators left after strip()
CellCount(line, c) == Count(strip(line), c) + 1

\* some line has another number of cells than line 0
Ragged(file, c) == \E i \in 1..Len(file) : CellCount(file[i], c) # CellCount(file[1], c)

\* C1: whenever some row's cell count differs from row 0's, whether shorter or
\* longer and wherever it sits, __init__ raises the AssertionError of line 66
\* and no object is handed out.
C1_RaggedConstructFails ==
    (op = "__init__" /\ Ragged(lines, sep))
        => (pc = "failed" /\ err = "AssertionError" /\ errLine = 66)

\* a three-line file whose middle line is longer than lines 0 and 2 was rejected
C1_Witness ==
    /\ op = "__init__"
    /\ pc = "failed"
    /\ err = "AssertionError"
    /\ Len(lines) = 3
    /\ CellCount(lines[2], sep) > CellCount(lines[1], sep)
    /\ CellCount(lines[3], sep) = CellCount(lines[1], sep)

\* C2: get_row_titles returns the first cell of every row but row 0 under both
\* flags, the first cell of every row under row titles only, None otherwise.
C2_RowTitles ==
    (pc = "ready" /\ op = "get_row_titles") =>
        /\ err = "none"
        /\ (row_titles /\ col_titles) =>
              /\ ret.kind = "list"
              /\ Len(ret.val) = Len(rows) - 1
              /\ \A i \in 1..(Len(rows) - 1) : ret.val[i] = rows[i + 1][1]
        /\ (row_titles /\ ~col_titles) =>
              /\ ret.kind = "list"
              /\ Len(ret.val) = Len(rows)
              /\ \A i \in 1..Len(rows) : ret.val[i] = rows[i][1]
        /\ ~row_titles => ret = None

\* both flags, three rows, and the corner cell differs from the first title
C2_Witness ==
    /\ pc = "ready"
    /\ op = "get_row_titles"
    /\ row_titles /\ col_titles
    /\ Len(rows) = 3
    /\ rows[1][1] # rows[2][1]
    /\ ret.val = <<rows[2][1], rows[3][1]>>

\* C3: get_col_titles returns the first cell of every column but column 0 under
\* both flags, and None whenever there are no column titles.
C3_ColTitles ==
    (pc = "ready" /\ op = "get_col_titles") =>
        /\ err = "none"
        /\ (col_titles /\ row_titles) =>
              /\ ret.kind = "list"
              /\ Len(ret.val) = Len(rows[1]) - 1
              /\ \A j \in 1..(Len(rows[1]) - 1) : ret.val[j] = rows[1][j + 1]
        /\ ~col_titles => ret = None

\* both flags, two columns or more, and the corner cell differs from the first title
C3_Witness ==
    /\ pc = "ready"
    /\ op = "get_col_titles"
    /\ row_titles /\ col_titles
    /\ Len(rows) >= 2
    /\ Len(rows[1]) >= 2
    /\ rows[1][1] # rows[1][2]
    /\ ret.val[1] = rows[1][2]

\* C4: get_data_per_row_without_titles drops row 0 when there are column
\* titles and cell 0 of every row when there are row titles, and keeps the
\* rest in row-major order, under each of the four flag combinations.
C4_DataPerRow ==
    (pc = "ready" /\ op = "get_data_per_row_without_titles") =>
        LET dr == IF col_titles THEN 1 ELSE 0
            dc == IF row_titles THEN 1 ELSE 0
        IN  /\ err = "none"
            /\ ret.kind = "list"
            /\ Len(ret.val) = Len(rows) - dr
            /\ \A i \in 1..(Len(rows) - dr) :
                  /\ Len(ret.val[i]) = Len(rows[i + dr]) - dc
                  /\ \A j \in 1..(Len(rows[i + dr]) - dc) :
                        ret.val[i][j] = rows[i + dr][j + dc]

\* column titles only on a grid of two rows and two columns whose row 1 has
\* two different cells, both kept
C4_Witness ==
    /\ pc = "ready"
    /\ op = "get_data_per_row_without_titles"
    /\ col_titles /\ ~row_titles
    /\ Len(rows) = 2
    /\ Len(rows[1]) = 2
    /\ rows[2][1] # rows[2][2]
    /\ ret.val = <<rows[2]>>

\* the transpose of a list of lists: one list per cell index of item 0
Transpose(m) ==
    IF m = <<>> THEN <<>>
    ELSE [j \in 1..Len(m[1]) |-> [i \in 1..Len(m) |-> m[i][j]]]

C6_TitleCountsAlways ==
    /\ (pc = "ready" /\ op = "get_row_titles") =>
          Len(ret.val) = Len(get_data_per_row_without_titles(Self).val)
    /\ (pc = "ready" /\ op = "get_col_titles") =>
          Len(ret.val) = Len(get_data_per_col_without_titles(Self).val)

\* C6 amended: with row titles there is one row title per data row, with
\* column titles one column title per data column; without the flag the
\* titles are None.
C6_TitleCountsWhenPresent ==
    /\ (pc = "ready" /\ op = "get_row_titles") =>
          IF row_titles
          THEN ret.kind = "list"
               /\ Len(ret.val) = Len(get_data_per_row_without_titles(Self).val)
          ELSE ret = None
    /\ (pc = "ready" /\ op = "get_col_titles") =>
          IF col_titles
          THEN ret.kind = "list"
               /\ Len(ret.val) = Len(get_data_per_col_without_titles(Self).val)
          ELSE ret = None

\* column titles only on three rows of two cells: two titles, two data columns
C6_Witness ==
    /\ pc = "ready"
    /\ op = "get_col_titles"
    /\ col_titles /\ ~row_titles
    /\ Len(rows) = 3
    /\ Len(ret.val) = 2
    /\ Len(get_data_per_col_without_titles(Self).val) = 2

\* the positions 0..n-1
Positions(n) == [i \in 1..n |-> i - 1]

\* C7: to_df returns the table whose matrix is parse_data of
\* get_data_per_row_without_titles, whose row labels are the row titles or
\* the positions of the data rows, whose column labels are the column titles
\* or the positions of the data columns; the labels always fit the matrix, so
\* the table constructor never rejects them.
C7_TableOfToDf ==
    (pc = "ready" /\ op = "to_df") =>
        LET rt == get_row_titles(Self)
            ct == get_col_titles(Self)
            dr == get_data_per_row_without_titles(Self).val
            dc == get_data_per_col_without_titles(Self).val
        IN  /\ errLine # 112
            /\ err = "none" =>
                  /\ ret.kind = "DataFrame"
                  /\ ret.val = parse_data(dr).val
                  /\ ret.index = IF rt.kind = "None" THEN Positions(Len(dr)) ELSE rt.val
                  /\ ret.columns = IF ct.kind = "None" THEN Positions(Len(dc)) ELSE ct.val
                  /\ Len(ret.index) = Len(ret.val)
                  /\ \A i \in 1..Len(ret.val) : Len(ret.val[i]) = Len(ret.columns)

\* column titles only over two numeric data rows of two cells: positions as
\* row labels, the titles as column labels
C7_Witness ==
    /\ pc = "ready"
    /\ op = "to_df"
    /\ err = "none"
    /\ col_titles /\ ~row_titles
    /\ Len(rows) = 3
    /\ Len(rows[1]) = 2
    /\ ret.index = <<0, 1>>
    /\ ret.columns = rows[1]
    /\ Len(ret.val) = 2
    /\ Len(ret.val[1]) = 2

\* the cell with every comma turned into a period
CommasToPeriods(c) == [k \in 1..Len(c) |-> IF c[k] = "," THEN "." ELSE c[k]]

\* C8: parse_data gives on every nested list the outcome it gives on the list
\* with every comma of every cell turned into a period, "1,5" and "1.5" give
\* 1.5, "3,14" gives 3.14, and the result has the shape of the input.
C8_CommaAsPeriod ==
    (pc = "ready" /\ op = "parse_data") =>
        LET m2 == [i \in 1..Len(arg) |-> [j \in 1..Len(arg[i]) |-> CommasToPeriods(arg[i][j])]]
            o2 == parse_data(m2)
        IN  /\ err = o2.err
            /\ err = "none" =>
                  /\ ret.kind = "list"
                  /\ ret.val = o2.val
                  /\ Len(ret.val) = Len(arg)
                  /\ \A i \in 1..Len(arg) : Len(ret.val[i]) = Len(arg[i])
            /\ arg \in {<< <<<<"1", ",", "5">>>> >>, << <<<<"1", ".", "5">>>> >>} =>
                  err = "none" /\ ret.val = << <<[num |-> 15, scale |-> 1]>> >>
            /\ arg = << <<<<"3", ",", "1", "4">>>> >> =>
                  err = "none" /\ ret.val = << <<[num |-> 314, scale |-> 2]>> >>

\* the row of "1,5" and "1.5" parsed to twice 1.5
C8_Witness ==
    /\ pc = "ready"
    /\ op = "parse_data"
    /\ arg = << <<<<"1", ",", "5">>, <<"1", ".", "5">>>> >>
    /\ err = "none"
    /\ ret.val = << <<[num |-> 15, scale |-> 1], [num |-> 15, scale |-> 1]>> >>

\* cells that are no number: the empty cell, a cell holding something else
\* than digits, separators and blanks, a cell with two separators, and any
\* cell float() rejects once its commas are periods
NotANumber(c) ==
    \/ c = <<>>
    \/ \E k \in 1..Len(c) : c[k] \notin Digits \cup {",", ".", " "}
    \/ Count(c, ",") + Count(c, ".") >= 2
    \/ ~is_float_literal(CommasToPeriods(c))

HasBadCell(m) == \E i \in 1..Len(m) : \E j \in 1..Len(m[i]) : NotANumber(m[i][j])

\* parse_data on a list with a bad cell raises the ValueError of line 118 and
\* returns nothing, and so does to_df when a data cell is bad
C9_Outcome ==
    /\ (pc = "ready" /\ op = "parse_data" /\ HasBadCell(arg)) =>
          (err = "ValueError" /\ errLine = 118 /\ ret = None)
    /\ (pc = "ready" /\ op = "to_df"
            /\ HasBadCell(get_data_per_row_without_titles(Self).val)) =>
          (err = "ValueError" /\ errLine = 118 /\ ret = None)

\* a failing parse_data or to_df leaves the object and the file as they were
C9_Frame ==
    (op' \in {"parse_data", "to_df"} /\ err' # "none") =>
        UNCHANGED <<pc, lines, object>>

\* C9: parse_data fails with the ValueError of float(), returning no partial
\* matrix, as soon as one cell is no number once its commas are periods;
\* to_df then fails with the same error and returns no table; the failed call
\* leaves rows, cols and the rest of the object unchanged.
C9_ParseFailure == []C9_Outcome /\ [][C9_Frame]_vars

\* parse_data refused a list of two rows whose first cell is a number and
\* whose second has two separators
C9_Witness ==
    /\ pc = "ready"
    /\ op = "parse_data"
    /\ Len(arg) = 2
    /\ arg[1] = << <<"1">> >>
    /\ arg[2] = << <<"1", ",", "2", "3", "4", ",", "5">> >>
    /\ err = "ValueError"
    /\ ret = None

\* C10: after a successful __init__ cols is the transpose of rows: one column
\* per cell of row 0, one cell per row in every column, cols[j][i] = rows[i][j];
\* all rows have one length and all columns have one length, and the assertion
\* on the columns (line 73) never fails.
C10_ColsTransposeRows ==
    /\ errLine \notin {73, 74}
    /\ pc = "ready" =>
          /\ Len(rows) >= 1
          /\ Len(cols) = Len(rows[1])
          /\ length_of_rows = Len(rows[1])
          /\ length_of_cols = Len(rows)
          /\ \A i \in 1..Len(rows) : Len(rows[i]) = Len(rows[1])
          /\ \A j \in 1..Len(cols) :
                /\ Len(cols[j]) = Len(rows)
                /\ \A i \in 1..Len(rows) : cols[j][i] = rows[i][j]

\* three rows of two cells just built, with different cells across the diagonal
C10_Witness ==
    /\ pc = "ready"
    /\ op = "__init__"
    /\ Len(rows) = 3
    /\ Len(cols) = 2
    /\ rows[1][2] # rows[2][1]
    /\ cols[2][1] = rows[1][2]
    /\ cols[1][3] = rows[3][1]

\* the object __init__ builds from the file, with the flags of the object at hand
AsBuilt ==
    LET rws == ReadRows(lines, sep)
    IN  [sep |-> sep, rows |-> rws, cols |-> BuildCols(rws, Len(rws[1])),
         row_titles |-> row_titles, col_titles |-> col_titles]

\* the object is the one __init__ built, and the last call returned what it
\* returns on that object, which is what its first call returned
C11_AsFirstCall ==
    pc = "ready" =>
        /\ rows = AsBuilt.rows
        /\ cols = AsBuilt.cols
        /\ op = "get_row_titles" => ret = get_row_titles(AsBuilt)
        /\ op = "get_col_titles" => ret = get_col_titles(AsBuilt)
        /\ op = "get_data_per_row_without_titles" =>
              ret = get_data_per_row_without_titles(AsBuilt)
        /\ op = "get_data_per_col_without_titles" =>
              ret = get_data_per_col_without_titles(AsBuilt)
        /\ op = "parse_data" =>
              /\ err = parse_data(arg).err
              /\ err = "none" => ret = List(parse_data(arg).val)
        /\ op = "to_df" =>
              /\ err = to_df(AsBuilt).err
              /\ err = "none" => ret = to_df(AsBuilt).val

\* no call on an object changes the object, the file or the flags
C11_Frame == pc = "ready" => (pc' = "ready" /\ UNCHANGED <<lines, object>>)

\* C11: any sequence of calls of the accessors, parse_data and to_df leaves
\* rows, cols, the seperator and both flags unchanged, and every call returns
\* what its first call returned.
C11_ImmutableGrid == []C11_AsFirstCall /\ [][C11_Frame]_vars

\* to_df has returned a table on a grid of three rows, which are still the
\* rows of the file
C11_Witness ==
    /\ pc = "ready"
    /\ op = "to_df"
    /\ err = "none"
    /\ Len(rows) = 3
    /\ Len(ret.val) >= 1
    /\ rows = ReadRows(lines, sep)

\* C12: a caller that modifies the list a data accessor returned changes
\* neither rows nor cols of the object, whatever the flags.
C12_NoAliasing == [][mutations' # mutations => UNCHANGED <<rows, cols>>]_vars

\* contents of cell (0,0) that two grids may differ in
CornerCells == {<<>>, <<"1">>, <<"a">>, <<" ">>}

\* the object built from the grid that differs from this one in cell (0,0) only
WithCorner(x) == [Self EXCEPT !.rows[1][1] = x, !.cols[1][1] = x]

\* C13: with both flags set, a grid and any grid that differs from it in
\* cell (0,0) only give the same row titles, column titles, data per row,
\* data per column and to_df outcome, so that to_df does not parse cell (0,0).
C13_CornerIgnored ==
    (pc = "ready" /\ row_titles /\ col_titles) =>
        \A x \in CornerCells :
            /\ get_row_titles(WithCorner(x)) = get_row_titles(Self)
            /\ get_col_titles(WithCorner(x)) = get_col_titles(Self)
            /\ get_data_per_row_without_titles(WithCorner(x)) =
                  get_data_per_row_without_titles(Self)
            /\ get_data_per_col_without_titles(WithCorner(x)) =
                  get_data_per_col_without_titles(Self)
            /\ to_df(WithCorner(x)) = to_df(Self)

\* to_df has returned a table on a grid of at least two rows and two columns
\* with both flags set whose cell (0,0) is not a number
C13_Witness ==
    /\ pc = "ready"
    /\ row_titles
    /\ col_titles
    /\ op = "to_df"
    /\ err = "none"
    /\ Len(rows) >= 2
    /\ Len(rows[1]) >= 2
    /\ ~is_float_literal(rows[1][1])
    /\ ret.val # <<>>

\* C14: all_are_the_same_length returns True exactly when every item has the
\* length of the first item, whatever the kinds of the items and wherever the
\* item of another length is, and True for an iterable without items.
C14_SameLength ==
    op = "all_are_the_same_length" =>
        /\ err = "none"
        /\ ret = Bool(\A i \in 1..Len(arg) : Len(arg[i]) = Len(arg[1]))
        /\ arg = <<>> => ret = Bool(TRUE)

\* a list and a tuple of two elements followed by a string of three
\* characters have been found not to be of the same length
C14_Witness ==
    /\ op = "all_are_the_same_length"
    /\ arg = << <<"l", "l">>, <<"t", "t">>, <<"s", "s", "s">> >>
    /\ ret = Bool(FALSE)

\* C15: construction from the lines of a written grid, whatever the
\* seperator, succeeds with rows equal to the grid, and the grid written with
\* any other seperator gives the same rows.
C15_SplitInvertsJoin ==
    op = "__init__" =>
        /\ pc = "ready"
        /\ rows = arg
        /\ \A c \in Delimiters :
              Writable(arg, c) => ReadRows(JoinLines(arg, c), c) = rows

\* C16: every constructed object has at least one row and every column holds
\* one cell per row, so no column is empty; with column titles only,
\* get_col_titles returns the first cell of every column, in column order,
\* as many titles as the grid has columns.
C16_EveryColumnTitled ==
    pc = "ready" =>
        /\ Len(rows) >= 1
        /\ Len(cols) = Len(rows[1])
        /\ \A j \in 1..Len(cols) : cols[j] # <<>> /\ Len(cols[j]) = Len(rows)
        /\ (col_titles /\ ~row_titles) =>
              get_col_titles(Self) = List([j \in 1..Len(cols) |-> cols[j][1]])
        /\ (op = "get_col_titles" /\ col_titles /\ ~row_titles) =>
              /\ ret = List([j \in 1..Len(cols) |-> cols[j][1]])
              /\ Len(ret.val) = Len(rows[1])

\* get_col_titles has returned the titles of a grid of at least two rows and
\* two columns with column titles only, the first of them empty
C16_Witness ==
    /\ pc = "ready"
    /\ op = "get_col_titles"
    /\ col_titles
    /\ ~row_titles
    /\ Len(rows) >= 2
    /\ Len(cols) >= 2
    /\ ret.val[1] = <<>>
    /\ Len(ret.val) = Len(cols)

\* C17: construction from no lines passes the check of the row lengths and
\* fails with IndexError where the length of the first row is read, not with
\* AssertionError; every constructed object has at least one row and at
\* least one column.
C17_EmptyInput ==
    /\ (op = "__init__" /\ lines = <<>>) =>
          (pc = "failed" /\ err = "IndexError" /\ errLine = 67)
    /\ pc = "ready" =>
          (lines # <<>> /\ Len(rows) >= 1 /\ Len(rows[1]) >= 1 /\ Len(cols) >= 1)

\* construction from no lines has failed
C17_Witness ==
    /\ op = "__init__"
    /\ lines = <<>>
    /\ pc = "failed"
    /\ err = "IndexError"

\* make_heatmap is invoked only when a dataframe is stored, a dataframe is
\* first stored by a "Read CSV" that ended without exception, "Save Heatmap"
\* without a dataframe only sets the notification, and a "Read CSV" that
\* ended with an exception leaves the dataframe and its notification
C18_Step ==
    /\ heatmaps' # heatmaps =>
          (dataframe.kind # "None" /\ op' = "call_make_heatmap")
    /\ (dataframe.kind = "None" /\ dataframe'.kind # "None") =>
          (op' = "define_dataframe" /\ err' = "none")
    /\ (op' = "call_make_heatmap" /\ dataframe.kind = "None") =>
          /\ notification_heatmap' = CouldNotMakeHeatmap
          /\ UNCHANGED <<dataframe, notification_csv, heatmaps>>
    /\ (op' = "define_dataframe" /\ err' # "none") =>
          UNCHANGED <<dataframe, notification_csv, heatmaps>>

\* C18: over every sequence of "Read CSV" and "Save Heatmap" events the
\* dataframe is None at first, make_heatmap is never invoked before a
\* "Read CSV" succeeded, "Save Heatmap" without a dataframe only sets the
\* "Could not make heatmap" notification, and a failing "Read CSV" leaves
\* the dataframe and the notification of the CSV as they were.
C18_NoHeatmapBeforeRead ==
    /\ (dataframe.kind = "None" /\ heatmaps = 0)
    /\ [](heatmaps > 0 => dataframe.kind # "None")
    /\ [][C18_Step]_vars

\* after a successful "Read CSV" and a heatmap, a "Read CSV" has failed and
\* the dataframe is still stored
C18_Witness ==
    /\ pc = "gui"
    /\ op = "define_dataframe"
    /\ err # "none"
    /\ dataframe.kind = "DataFrame"
    /\ heatmaps > 0
====
